---- MODULE Spec2Model ----
(***************************************************************************)
(* Reminder engine of the task bot (src/bot.py): the tasks table, the      *)
(* /assign and /complete commands, the two tasks.loop reminder loops       *)
(* (hourly_reminder, overdue_reminder) and on_ready, which starts them.    *)
(* Time is the integer second count of datetime.now(); a due_date column   *)
(* value is NoDue (NULL), BadDue (text strptime rejects) or the instant    *)
(* the text parses to.  Variables local to a pass hold their initial       *)
(* values outside a pass.  The clock starts at Cooldown seconds, the       *)
(* least now_ts at which the stamp 0 of a never-notified row passes the    *)
(* cooldown test, as every present-day timestamp does.                     *)
(***************************************************************************)
EXTENDS Integers, Sequences, FiniteSets, TLC

VARIABLES
    clock,        \* datetime.now(), in seconds
    dbInit,       \* init_db has created the tables
    tasks,        \* the tasks table: row id -> row
    readyPend,    \* on_ready handlers past init_db, before the loops are started
    odLoop,       \* overdue_reminder: "off", "idle", "run", "failed"
    odNext,       \* overdue_reminder: time of its next iteration
    odNow,        \* overdue_reminder pass: now / now_ts (-1 outside a pass)
    odRows,       \* overdue_reminder pass: rows fetched
    odIdx,        \* overdue_reminder pass: position in rows
    odPc,         \* overdue_reminder pass: "rows" or "stamp" (send done)
    hrLoop,       \* hourly_reminder: "off", "idle", "run", "failed"
    hrNext,       \* hourly_reminder: time of its next iteration
    hrUsers,      \* hourly_reminder pass: users fetched
    hrIdx,        \* hourly_reminder pass: position in users
    ev,           \* what the last step sent or skipped (observation only): prev is the time of
                  \* the task's previous delivered alert (a send) or the stamp read (a skip),
                  \* rem the number of candidates of the pass still to come
    lastSent,     \* per task: now_ts of the last delivered overdue alert, -1 if none
    odStartDone,  \* tasks already completed when the overdue pass began
    hrStartDone,  \* tasks already completed when the hourly pass began
    odPrevSent,   \* tasks alerted in the previous overdue pass, if nothing changed since it began
    odCurSent,    \* tasks alerted in this overdue pass, while nothing changed
    odDirty       \* the clock or a command changed the state since this overdue pass began

vars == << clock, dbInit, tasks, readyPend,
           odLoop, odNext, odNow, odRows, odIdx, odPc,
           hrLoop, hrNext, hrUsers, hrIdx, ev,
           lastSent, odStartDone, hrStartDone,
           odPrevSent, odCurSent, odDirty >>

dbVars  == << dbInit, tasks >>
odVars  == << odLoop, odNext, odNow, odRows, odIdx, odPc >>
hrVars  == << hrLoop, hrNext, hrUsers, hrIdx >>
odGhost == << odStartDone, odPrevSent, odCurSent, odDirty >>
idem    == << odPrevSent, odCurSent, odDirty >>

\* ---- bounds of the model
MaxTasks == 2
MaxClock == 60
MaxReady == 1

\* ---- program constants
Cooldown == 20
OverdueInterval == 20
HourlyInterval == 3600

Users == {1, 2}
NoDue == -1
BadDue == -2
DueVals == {NoDue, BadDue, 20}
ClockSteps == {20}
SendOutcomes == {"ok", "forbidden", "error"}
QueryOutcomes == {"ok", "fail"}
WriteOutcomes == {"ok", "fail"}
TaskIds == 1..(MaxTasks + 1)

NoEv == [type |-> "none", task |-> 0, user |-> 0, now |-> 0, prev |-> 0,
         listed |-> {}, rem |-> 0]
Ev(ty, t, u, n, p, l, r) ==
    [type |-> ty, task |-> t, user |-> u, now |-> n, prev |-> p, listed |-> l, rem |-> r]

Ids == 1..Len(tasks)
DoneIds == {i \in Ids : tasks[i].completed = 1}

\* a time the bounded clock never reaches stands for every later time
Horizon(t) == IF t > MaxClock THEN MaxClock + 1 ELSE t

\* ---- pure helpers

\* (variant: text that is no date read as the earliest date)
ParseDueLenient(s) == IF s = NoDue THEN [ok |-> FALSE, val |-> 0] ELSE [ok |-> TRUE, val |-> 0]

\* datetime.strptime with the two formats: the instant, or failure
ParseDue(s) == IF s >= 0 THEN [ok |-> TRUE, val |-> s] ELSE [ok |-> FALSE, val |-> 0]

\* int(last_notified) if last_notified else 0
LastTs(last) == IF last # 0 THEN last ELSE 0

\* (variant: a grace period of one cooldown after the due time)
IsOverdueAfterGrace(due, now) == due + Cooldown < now

\* due_date < now
IsOverdue(due, now) == due < now

\* (variant: the cooldown boundary excluded)
CooldownPassedStrict(nowTs, lastTs) == nowTs - lastTs > Cooldown

\* now_ts - last_ts >= 20
CooldownPassed(nowTs, lastTs) == nowTs - lastTs >= Cooldown

\* (variant: the SELECT without its completed = 0 test)
OverdueCandidateAnyStatus(row) == row.due_date # NoDue

\* (variant: the SELECT without its due_date IS NOT NULL test)
OverdueCandidateNoNullTest(row) == row.completed = 0

\* SELECT ... WHERE completed = 0 AND due_date IS NOT NULL
OverdueCandidate(row) == row.completed = 0 /\ row.due_date # NoDue

RECURSIVE SelectRows(_, _)
SelectRows(tbl, i) ==
    IF i > Len(tbl) THEN << >>
    ELSE LET rest == SelectRows(tbl, i + 1)
         IN IF OverdueCandidate(tbl[i])
            THEN << [id |-> i, user_id |-> tbl[i].user_id, due_date |-> tbl[i].due_date,
                     last |-> tbl[i].last_overdue_notified] >> \o rest
            ELSE rest

\* SELECT DISTINCT user_id FROM tasks WHERE completed = 0 (a table scan: each
\* user where its first pending row is met)
RECURSIVE PendingUsers(_, _, _)
PendingUsers(tbl, i, seen) ==
    IF i > Len(tbl) THEN << >>
    ELSE IF tbl[i].completed = 0 /\ tbl[i].user_id \notin seen
         THEN << tbl[i].user_id >> \o PendingUsers(tbl, i + 1, seen \cup {tbl[i].user_id})
         ELSE PendingUsers(tbl, i + 1, seen)

\* SELECT id, task, due_date FROM tasks WHERE user_id = ? AND completed = 0
PendingOf(tbl, u) == {i \in 1..Len(tbl) : tbl[i].user_id = u /\ tbl[i].completed = 0}

\* ---- initial state: a new database, the bot not yet ready
Init ==
    /\ clock = Cooldown
    /\ dbInit = FALSE
    /\ tasks = << >>
    /\ readyPend = 0
    /\ odLoop = "off" /\ odNext = 0 /\ odNow = -1 /\ odRows = << >> /\ odIdx = 1 /\ odPc = "rows"
    /\ hrLoop = "off" /\ hrNext = 0 /\ hrUsers = << >> /\ hrIdx = 1
    /\ ev = NoEv
    /\ lastSent = [i \in TaskIds |-> -1]
    /\ odStartDone = {}
    /\ hrStartDone = {}
    /\ odPrevSent = {}
    /\ odCurSent = {}
    /\ odDirty = FALSE

\* observation: the state changed under the running or the previous overdue pass
Touched ==
    /\ odPrevSent' = {}
    /\ odCurSent' = {}
    /\ odDirty' = (odLoop = "run")

\* a loop whose iteration is due starts it before the clock moves on
Due(loop, next) == loop = "idle" /\ clock >= next

\* hourly_reminder reads no clock and nothing overdue_reminder or on_ready writes,
\* so its steps commute with theirs: a pass of it, from the moment it is due, is
\* interleaved with the commands only
HrBusy == hrLoop = "run" \/ Due(hrLoop, hrNext)

\* ---- the clock
Tick ==
    /\ ~HrBusy
    /\ ~Due(odLoop, odNext)
    /\ \E d \in ClockSteps : clock + d <= MaxClock /\ clock' = clock + d
    /\ ev' = NoEv
    /\ Touched
    /\ UNCHANGED << dbVars, readyPend, odVars, hrVars, lastSent, hrStartDone, odStartDone >>

\* ---- /assign: INSERT INTO tasks (...), completed and last_overdue_notified default 0
assign_task(u, due) ==
    /\ dbInit
    /\ Len(tasks) < MaxTasks
    /\ tasks' = Append(tasks, [user_id |-> u, due_date |-> due, completed |-> 0,
                               last_overdue_notified |-> 0])
    /\ ev' = NoEv
    /\ Touched
    /\ UNCHANGED << clock, dbInit, readyPend, odVars, hrVars, lastSent, odStartDone,
                    hrStartDone >>

\* (variant: the lookup by id alone)
OwnedByAnyone(tbl, id, u) == id \in 1..Len(tbl)

\* ---- /complete: the row is looked up by id AND user_id, then completed = 1
OwnedBy(tbl, id, u) == id \in 1..Len(tbl) /\ tbl[id].user_id = u

complete_task(u, id) ==
    /\ dbInit
    /\ IF OwnedBy(tasks, id, u)
       THEN /\ tasks' = [tasks EXCEPT ![id].completed = 1]
            /\ Touched
       ELSE UNCHANGED << tasks, idem >>
    /\ ev' = Ev(IF OwnedBy(tasks, id, u) THEN "complete" ELSE "complete_denied", id, u,
                0, 0, {}, 0)
    /\ UNCHANGED << clock, dbInit, readyPend, odVars, hrVars, lastSent, odStartDone,
                    hrStartDone >>

\* ---- on_ready, up to the end of init_db (tree.sync is awaited next), with at
\* most limit handlers between init_db and the start of the loops
on_ready_begin(limit) ==
    /\ ~HrBusy
    /\ readyPend < limit
    /\ readyPend' = readyPend + 1
    /\ dbInit' = TRUE
    /\ ev' = NoEv
    /\ UNCHANGED << clock, tasks, odVars, hrVars, lastSent, hrStartDone, odGhost >>

on_ready_init_db == on_ready_begin(MaxReady)

\* (variant: a loop asleep between two iterations taken as not running)
IsRunningOnlyMidPass(loop) == loop = "run"

\* (variant: on_ready without its is_running() tests)
IsRunningNever(loop) == FALSE

\* Loop.is_running(): the loop's task exists and is not done
IsRunning(loop) == loop \in {"idle", "run"}

\* ---- on_ready, after tree.sync: start each loop that is not running; a started
\* loop runs its first iteration at once
on_ready_start ==
    /\ ~HrBusy
    /\ readyPend > 0
    /\ readyPend' = readyPend - 1
    /\ IF IsRunning(hrLoop)
       THEN UNCHANGED << hrLoop, hrNext >>
       ELSE hrLoop' = "idle" /\ hrNext' = clock
    /\ IF IsRunning(odLoop)
       THEN UNCHANGED << odLoop, odNext >>
       ELSE odLoop' = "idle" /\ odNext' = clock
    /\ ev' = NoEv
    /\ UNCHANGED << clock, dbVars, odNow, odRows, odIdx, odPc, hrUsers, hrIdx,
                    lastSent, hrStartDone, odGhost >>

\* ---- overdue_reminder: the iteration begins (now, connect, SELECT, fetchall).
\* An exception here leaves the coroutine and ends the loop's task.
OdStart(q) ==
    /\ ~HrBusy
    /\ odLoop = "idle"
    /\ clock >= odNext
    /\ odNext' = Horizon(odNext + OverdueInterval)
    /\ odIdx' = 1
    /\ odPc' = "rows"
    /\ IF q = "ok"
       THEN /\ odLoop' = "run"
            /\ odNow' = clock
            /\ odRows' = SelectRows(tasks, 1)
            /\ odStartDone' = DoneIds
            /\ UNCHANGED odPrevSent
       ELSE /\ odLoop' = "failed"
            /\ odNow' = -1
            /\ odRows' = << >>
            /\ odStartDone' = {}
            /\ odPrevSent' = {}
    /\ odCurSent' = {}
    /\ odDirty' = FALSE
    /\ ev' = IF q = "ok" THEN NoEv ELSE Ev("od_start_fail", 0, 0, clock, 0, {}, 0)
    /\ UNCHANGED << clock, dbVars, readyPend, hrVars, lastSent, hrStartDone >>

OdRow == odRows[odIdx]

\* the row passes every test before the send
OdEligible(r, now) ==
    /\ ParseDue(r.due_date).ok
    /\ IsOverdue(ParseDue(r.due_date).val, now)
    /\ CooldownPassed(now, LastTs(r.last))

OdWhy(r, now) ==
    IF ~ParseDue(r.due_date).ok THEN "od_skip_parse"
    ELSE IF ~IsOverdue(ParseDue(r.due_date).val, now) THEN "od_not_due"
    ELSE "od_cooldown"

\* ---- overdue_reminder: a row that is skipped (continue, or a false if)
OdSkip ==
    /\ ~HrBusy
    /\ odLoop = "run" /\ odPc = "rows" /\ odIdx <= Len(odRows)
    /\ ~OdEligible(OdRow, odNow)
    /\ odIdx' = odIdx + 1
    /\ ev' = Ev(OdWhy(OdRow, odNow), OdRow.id, OdRow.user_id, odNow, LastTs(OdRow.last), {},
                Len(odRows) - odIdx)
    /\ UNCHANGED << clock, dbVars, readyPend, odLoop, odNext, odNow, odRows, odPc, hrVars,
                    lastSent, hrStartDone, odGhost >>

\* (variant: the UPDATE placed after the try, reached whatever the send did)
AfterSendAlwaysStamp(o) == "stamp"

\* where control goes after fetch_user and send: on to the UPDATE, or, from an
\* except clause, to the next row
AfterSend(o) == IF o = "ok" THEN "stamp" ELSE "rows"

\* ---- overdue_reminder: fetch_user and send for an eligible row
OdSend(o) ==
    /\ ~HrBusy
    /\ odLoop = "run" /\ odPc = "rows" /\ odIdx <= Len(odRows)
    /\ OdEligible(OdRow, odNow)
    /\ odPc' = AfterSend(o)
    /\ odIdx' = IF AfterSend(o) = "stamp" THEN odIdx ELSE odIdx + 1
    /\ IF o = "ok"
       THEN /\ ev' = Ev("od_sent", OdRow.id, OdRow.user_id, odNow, lastSent[OdRow.id], {},
                        Len(odRows) - odIdx)
            /\ lastSent' = [lastSent EXCEPT ![OdRow.id] = odNow]
            /\ odCurSent' = IF odDirty THEN {} ELSE odCurSent \cup {OdRow.id}
       ELSE /\ ev' = Ev(IF o = "forbidden" THEN "od_forbidden" ELSE "od_error",
                        OdRow.id, OdRow.user_id, odNow, lastSent[OdRow.id], {},
                        Len(odRows) - odIdx)
            /\ UNCHANGED << lastSent, odCurSent >>
    /\ UNCHANGED << clock, dbVars, readyPend, odLoop, odNext, odNow, odRows, hrVars,
                    odStartDone, hrStartDone, odPrevSent, odDirty >>

\* (variant: the UPDATE without its WHERE clause)
StampAllRows(tbl, id, ts) == [k \in 1..Len(tbl) |-> [tbl[k] EXCEPT !.last_overdue_notified = ts]]

\* UPDATE tasks SET last_overdue_notified = ? WHERE id = ?
StampRow(tbl, id, ts) == [tbl EXCEPT ![id].last_overdue_notified = ts]

\* ---- overdue_reminder: the stamp after a delivered alert; a failed write is swallowed
OdStamp(w) ==
    /\ ~HrBusy
    /\ odLoop = "run" /\ odPc = "stamp"
    /\ IF w = "ok"
       THEN /\ tasks' = StampRow(tasks, OdRow.id, odNow)
            /\ ev' = Ev("od_stamp", OdRow.id, OdRow.user_id, odNow, 0, {}, Len(odRows) - odIdx)
       ELSE /\ tasks' = tasks
            /\ ev' = Ev("od_stamp_fail", OdRow.id, OdRow.user_id, odNow, 0, {},
                        Len(odRows) - odIdx)
    /\ odPc' = "rows"
    /\ odIdx' = odIdx + 1
    /\ UNCHANGED << clock, dbInit, readyPend, odLoop, odNext, odNow, odRows, hrVars,
                    lastSent, hrStartDone, odGhost >>

\* ---- overdue_reminder: the for loop is exhausted, the loop sleeps until odNext
OdEnd ==
    /\ ~HrBusy
    /\ odLoop = "run" /\ odPc = "rows" /\ odIdx > Len(odRows)
    /\ odLoop' = "idle"
    /\ odNow' = -1 /\ odRows' = << >> /\ odIdx' = 1
    /\ odStartDone' = {}
    /\ odPrevSent' = odCurSent
    /\ odCurSent' = {}
    /\ odDirty' = FALSE
    /\ ev' = NoEv
    /\ UNCHANGED << clock, dbVars, readyPend, odNext, odPc, hrVars, lastSent, hrStartDone >>

\* ---- hourly_reminder: the iteration begins (connect, SELECT DISTINCT, fetchall)
HrStart(q) ==
    /\ hrLoop = "idle"
    /\ clock >= hrNext
    /\ hrNext' = Horizon(hrNext + HourlyInterval)
    /\ hrIdx' = 1
    /\ IF q = "ok"
       THEN /\ hrLoop' = "run"
            /\ hrUsers' = PendingUsers(tasks, 1, {})
            /\ hrStartDone' = DoneIds
            /\ ev' = NoEv
       ELSE /\ hrLoop' = "failed"
            /\ hrUsers' = << >>
            /\ hrStartDone' = {}
            /\ ev' = Ev("hr_start_fail", 0, 0, clock, 0, {}, 0)
    /\ UNCHANGED << clock, dbVars, readyPend, odVars, lastSent, odGhost >>

HrUser == hrUsers[hrIdx]

\* ---- hourly_reminder: a user with no pending task left, or not in the user cache
HrSkip ==
    /\ hrLoop = "run" /\ hrIdx <= Len(hrUsers)
    /\ hrIdx' = hrIdx + 1
    /\ ev' = NoEv
    /\ UNCHANGED << clock, dbVars, readyPend, odVars, hrLoop, hrNext, hrUsers,
                    lastSent, hrStartDone, odGhost >>

\* ---- hourly_reminder: the reminder to one user, listing every pending task;
\* only discord.Forbidden is caught
HrSend(o) ==
    /\ hrLoop = "run" /\ hrIdx <= Len(hrUsers)
    /\ PendingOf(tasks, HrUser) # {}
    /\ IF o = "error"
       THEN /\ hrLoop' = "failed"
            /\ hrIdx' = 1 /\ hrUsers' = << >> /\ hrStartDone' = {}
            /\ ev' = Ev("hr_error", 0, HrUser, 0, 0, {}, Len(hrUsers) - hrIdx)
       ELSE /\ hrLoop' = "run"
            /\ hrIdx' = hrIdx + 1
            /\ ev' = IF o = "ok"
                     THEN Ev("hr_sent", 0, HrUser, 0, 0, PendingOf(tasks, HrUser),
                             Len(hrUsers) - hrIdx)
                     ELSE NoEv
            /\ UNCHANGED << hrUsers, hrStartDone >>
    /\ UNCHANGED << clock, dbVars, readyPend, odVars, hrNext, lastSent, odGhost >>

\* ---- hourly_reminder: the per-user SELECT raises
HrQueryFail ==
    /\ hrLoop = "run" /\ hrIdx <= Len(hrUsers)
    /\ hrLoop' = "failed"
    /\ hrIdx' = 1 /\ hrUsers' = << >> /\ hrStartDone' = {}
    /\ ev' = Ev("hr_query_fail", 0, HrUser, 0, 0, {}, Len(hrUsers) - hrIdx + 1)
    /\ UNCHANGED << clock, dbVars, readyPend, odVars, hrNext, lastSent, odGhost >>

\* ---- hourly_reminder: the for loop is exhausted, the loop sleeps until hrNext
HrEnd ==
    /\ hrLoop = "run" /\ hrIdx > Len(hrUsers)
    /\ hrLoop' = "idle"
    /\ hrIdx' = 1 /\ hrUsers' = << >> /\ hrStartDone' = {}
    /\ ev' = NoEv
    /\ UNCHANGED << clock, dbVars, readyPend, odVars, hrNext, lastSent, odGhost >>

Assign == \E u \in Users, due \in DueVals : assign_task(u, due)
Complete == \E u \in Users, id \in 1..MaxTasks : complete_task(u, id)
OverdueStart == \E q \in QueryOutcomes : OdStart(q)
OverdueSend == \E o \in SendOutcomes : OdSend(o)
OverdueStamp == \E w \in WriteOutcomes : OdStamp(w)
HourlyStart == \E q \in QueryOutcomes : HrStart(q)
HourlySend == \E o \in SendOutcomes : HrSend(o)

Next ==
    \/ Tick
    \/ Assign
    \/ Complete
    \/ on_ready_init_db
    \/ on_ready_start
    \/ OverdueStart
    \/ OdSkip
    \/ OverdueSend
    \/ OverdueStamp
    \/ OdEnd
    \/ HourlyStart
    \/ HrSkip
    \/ HourlySend
    \/ HrQueryFail
    \/ HrEnd

Spec == Init /\ [][Next]_vars

\* ---- the bot while the store answers and every send is accepted: each coroutine
\* that can run is run by the event loop, and the clock moves on
HourlySendLive == \E o \in {"ok", "forbidden"} : HrSend(o)
HourlyStep == HrSkip \/ HourlySendLive

NextLive ==
    \/ Tick
    \/ Assign
    \/ Complete
    \/ on_ready_init_db
    \/ on_ready_start
    \/ OdStart("ok")
    \/ OdSkip
    \/ OdSend("ok")
    \/ OverdueStamp
    \/ OdEnd
    \/ HrStart("ok")
    \/ HourlyStep
    \/ HrEnd

LiveSpec ==
    /\ Init /\ [][NextLive]_vars
    /\ WF_vars(Tick)
    /\ WF_vars(on_ready_start)
    /\ WF_vars(OdStart("ok")) /\ WF_vars(OdSkip) /\ WF_vars(OdSend("ok"))
    /\ WF_vars(OverdueStamp) /\ WF_vars(OdEnd)
    /\ WF_vars(HrStart("ok")) /\ WF_vars(HourlyStep) /\ WF_vars(HrEnd)

\* ---- the bot with on_ready handlers overlapping (a reconnect while an earlier
\* handler still awaits tree.sync)
on_ready_overlapping == on_ready_begin(MaxReady + 1)

NextReady ==
    \/ Tick
    \/ Assign
    \/ Complete
    \/ on_ready_overlapping
    \/ on_ready_start
    \/ OverdueStart
    \/ OdSkip
    \/ OverdueSend
    \/ OverdueStamp
    \/ OdEnd
    \/ HourlyStart
    \/ HrSkip
    \/ HourlySend
    \/ HrQueryFail
    \/ HrEnd

ReadySpec == Init /\ [][NextReady]_vars

\* ------------------------------------------------------------------------
\* Properties

Due_(i) == tasks[i].due_date
Stamp(i) == tasks[i].last_overdue_notified
OdEvents == {"od_skip_parse", "od_not_due", "od_cooldown", "od_sent", "od_forbidden",
             "od_error", "od_stamp", "od_stamp_fail"}

\* C1: any two delivered overdue alerts for one task are at least Cooldown apart,
\* measured by the now_ts of their passes (whatever sends or stamp writes failed).
C1_AlertsCooldownApart ==
    (ev.type = "od_sent" /\ ev.prev # -1) => ev.now - ev.prev >= Cooldown

\* C2: two overdue passes under the same now, with no change of state in between,
\* deliver at most one alert per task: a task alerted in the first is not alerted
\* in the second.
C2_SameNowIdempotent ==
    ev.type = "od_sent" => ev.task \notin odPrevSent

\* C3: a task completed while an overdue pass is in progress (after its rows were
\* read) is not sent an alert in that pass.
C3_NoAlertOnceCompletedMidPass ==
    (ev.type = "od_sent" /\ ev.task \notin odStartDone) => tasks[ev.task].completed = 0

\* C4: completed never reverts, and a reminder pass that begins after a task was
\* completed sends nothing for it, lists it in no reminder and leaves its
\* last_overdue_notified alone, whatever its due date.
C4_CompletedExcluded ==
    [][\A i \in Ids :
         /\ tasks[i].completed = 1 => tasks'[i].completed = 1
         /\ (ev'.type \in OdEvents /\ ev'.task = i) => i \notin odStartDone
         /\ (ev'.type = "hr_sent" /\ i \in ev'.listed) => i \notin hrStartDone
         /\ tasks'[i].last_overdue_notified # Stamp(i) =>
                odLoop = "run" /\ i \notin odStartDone]_vars

\* an overdue pass has gone through its rows, and a task completed before it began
\* would otherwise have been alerted
C4_Witness ==
    /\ odLoop = "run" /\ odIdx > Len(odRows)
    /\ \E i \in odStartDone :
          OdEligible([due_date |-> Due_(i), last |-> Stamp(i)], odNow)

\* C5: last_overdue_notified is written only after the alert for that task was
\* delivered in the same pass, with that pass's now_ts; a failed fetch or send
\* leaves it unchanged, and the row stays eligible at every later now.
C5_StampOnlyAfterDelivery ==
    [][\A i \in Ids :
         /\ tasks'[i].last_overdue_notified # Stamp(i) =>
                /\ odLoop = "run" /\ odPc = "stamp" /\ OdRow.id = i
                /\ lastSent[i] = odNow
                /\ tasks'[i].last_overdue_notified = odNow
         /\ (ev'.type \in {"od_forbidden", "od_error"} /\ ev'.task = i) =>
                /\ tasks'[i].last_overdue_notified = Stamp(i)
                /\ \A n \in ev'.now..MaxClock :
                      OdEligible([due_date |-> Due_(i), last |-> Stamp(i)], n)]_vars

\* a send has just failed for a task that was never stamped
C5_Witness ==
    /\ ev.type \in {"od_forbidden", "od_error"}
    /\ Stamp(ev.task) = 0

\* C6 as stated: an incomplete, never-notified row with dueAt <= now is not skipped.
C6_EligibleWhenDueNotAfterNow ==
    ~ /\ ev.type \in {"od_not_due", "od_cooldown"}
      /\ ev.prev = 0
      /\ tasks[ev.task].completed = 0
      /\ ParseDue(Due_(ev.task)).val <= ev.now

\* C6 as amended: an incomplete, never-notified row with dueAt < now (strictly) is
\* not skipped: the pass attempts the send.
C6_EligibleWhenOverdue ==
    ~ /\ ev.type \in {"od_not_due", "od_cooldown"}
      /\ ev.prev = 0
      /\ tasks[ev.task].completed = 0
      /\ ParseDue(Due_(ev.task)).val < ev.now

\* the first alert of a never-notified task past its due time has been delivered
C6_Witness ==
    /\ ev.type = "od_sent" /\ ev.prev = -1
    /\ Stamp(ev.task) = 0
    /\ ParseDue(Due_(ev.task)).val < ev.now

\* C7 as stated: no reminder of either loop is triggered by or lists a task whose
\* due_date is NULL.
C7_NoReminderWithoutDue ==
    /\ ev.type = "od_sent" => Due_(ev.task) # NoDue
    /\ ev.type = "hr_sent" => \A i \in ev.listed : Due_(i) # NoDue

\* C7 as amended: a task whose due_date is NULL is never a candidate of an overdue
\* pass and is never sent an overdue alert.
C7_NoOverdueAlertWithoutDue ==
    /\ \A k \in 1..Len(odRows) : odRows[k].due_date # NoDue
    /\ ev.type \in OdEvents => Due_(ev.task) # NoDue

\* an overdue pass has gone through its rows while a pending task without a due
\* date was in the table from its start
C7_Witness ==
    /\ odLoop = "run" /\ odIdx > Len(odRows) /\ ~odDirty
    /\ \E i \in Ids : Due_(i) = NoDue /\ tasks[i].completed = 0

\* C8: no reminder loop ever stops because of an error inside a pass.
C8_LoopsSurviveErrors ==
    odLoop # "failed" /\ hrLoop # "failed"

\* C9: an error on one item of a pass (a send or a stamp write that raises) does
\* not abort the pass: while candidates remain, the pass goes on to them.
C9_ItemErrorIsolated ==
    /\ (ev.type \in {"od_forbidden", "od_error", "od_stamp_fail"} /\ ev.rem > 0) =>
           (odLoop = "run" /\ odIdx <= Len(odRows))
    /\ (ev.type = "hr_error" /\ ev.rem > 0) =>
           (hrLoop = "run" /\ hrIdx <= Len(hrUsers))

\* the instants the clock takes
ClockVals == {c \in Cooldown..MaxClock : (c - Cooldown) % 20 = 0}

\* task i is pending and past its due time at time c, and the overdue loop has an
\* iteration to come
OwedAlert(i, c) ==
    /\ clock = c
    /\ i \in Ids /\ tasks[i].completed = 0
    /\ ParseDue(Due_(i)).ok /\ IsOverdue(ParseDue(Due_(i)).val, c)
    /\ IsRunning(odLoop) /\ odNext <= MaxClock

Settled(i, c) == (i \in Ids /\ tasks[i].completed = 1) \/ lastSent[i] >= c

AlertedNow(i) == ev.type = "od_sent" /\ ev.task = i

\* C10: while the loop ticks, the clock advances and sends succeed, a task that is
\* pending and overdue at an instant c is alerted in a pass of now_ts >= c unless
\* it is completed first (so again at each later instant, a cooldown apart); once
\* it is completed and no pass is in progress, it is never alerted again.
C10_AlertedUntilCompleted ==
    \A i \in 1..MaxTasks :
        /\ \A c \in ClockVals : OwedAlert(i, c) ~> Settled(i, c)
        /\ []((i \in Ids /\ tasks[i].completed = 1 /\ odLoop # "run") => []~AlertedNow(i))

\* a pending task is alerted again, a cooldown after its previous alert
C10_Witness ==
    /\ ev.type = "od_sent" /\ ev.prev # -1
    /\ ev.now - ev.prev >= Cooldown
    /\ tasks[ev.task].completed = 0

\* the steps of an overdue pass that call fetch_user and send
OdSendEvents == {"od_sent", "od_forbidden", "od_error"}

\* C11: the stamp write never changes last_overdue_notified of a task whose
\* completed flag is already 1, whatever the interleaving of the pass with /complete.
C11_NoStampOnceCompleted ==
    [][\A i \in Ids :
         tasks[i].completed = 1 => tasks'[i].last_overdue_notified = Stamp(i)]_vars

\* C12: after a send to a recipient failed with discord.Forbidden, the pass attempts
\* no further send to that recipient (here: the very next step of the pass is no
\* send attempt to that same recipient).
C12_NoRetryAfterForbidden ==
    [][~ /\ ev.type = "od_forbidden"
         /\ ev'.type \in OdSendEvents
         /\ ev'.user = ev.user]_vars

\* C13: a pass of a loop begins only when that loop is idle with the previous pass
\* finished (its locals released), also when the pass outlasted the interval and
\* the next iteration's time has come during the pass.
C13_NoOverlappingPasses ==
    [][/\ (odLoop' = "run" /\ odNext' # odNext) =>
               (odLoop = "idle" /\ odNow = -1 /\ odIdx = 1 /\ odPc = "rows")
       /\ (hrLoop' = "run" /\ hrNext' # hrNext) =>
               (hrLoop = "idle" /\ hrIdx = 1 /\ hrUsers = << >>)
       /\ (odLoop = "run" /\ odLoop' = "run") => (odNow' = odNow /\ odRows' = odRows)
       /\ (hrLoop = "run" /\ hrLoop' = "run") => hrUsers' = hrUsers]_vars

\* an overdue pass is still running with a candidate to go when the time of the
\* next iteration has come
C13_Witness ==
    /\ odLoop = "run" /\ odIdx <= Len(odRows)
    /\ clock >= odNext

\* C14: for a row that is past its due time and carries a recorded stamp L, the
\* pass attempts the send if and only if now_ts - L >= Cooldown (the boundary
\* included), and such a row is eligible at every later now as well.
C14_CooldownBoundary ==
    /\ (ev.type \in OdSendEvents /\ Stamp(ev.task) # 0) =>
           /\ ev.now - Stamp(ev.task) >= Cooldown
           /\ \A n \in ev.now..MaxClock : n - Stamp(ev.task) >= Cooldown
    /\ (ev.type = "od_cooldown" /\ ev.prev # 0) => ev.now - ev.prev < Cooldown
    /\ (ev.type \in {"od_skip_parse", "od_not_due"}) =>
           (Due_(ev.task) < 0 \/ Due_(ev.task) >= ev.now)

\* an alert is delivered exactly one cooldown after the recorded stamp
C14_Witness ==
    /\ ev.type = "od_sent"
    /\ Stamp(ev.task) # 0
    /\ ev.now - Stamp(ev.task) = Cooldown

\* C15: no step lowers a task's last_overdue_notified, and a step that changes it
\* writes the now_ts of the running pass, in which an alert for that task was
\* delivered; so a stamp never exceeds the time of the task's last delivered alert.
C15_StampMonotone ==
    [][\A i \in Ids :
         /\ tasks'[i].last_overdue_notified >= Stamp(i)
         /\ tasks'[i].last_overdue_notified # Stamp(i) =>
                /\ odLoop = "run" /\ odPc = "stamp" /\ OdRow.id = i
                /\ tasks'[i].last_overdue_notified = lastSent'[i]
                /\ lastSent'[i] = odNow
         /\ tasks'[i].last_overdue_notified # 0 =>
                tasks'[i].last_overdue_notified <= lastSent'[i]]_vars

\* a stamp has been replaced by a later one
C15_Witness ==
    /\ ev.type = "od_stamp"
    /\ odRows[odIdx - 1].id = ev.task
    /\ odRows[odIdx - 1].last # 0
    /\ Stamp(ev.task) > odRows[odIdx - 1].last

\* C16: a candidate whose due_date text cannot be parsed is skipped: no send and
\* no stamp ever happen for it, the pass goes on to the candidates that remain,
\* and the loop keeps running.
C16_UnparseableSkipped ==
    /\ ev.type \in (OdSendEvents \cup {"od_stamp", "od_stamp_fail"}) =>
           Due_(ev.task) # BadDue
    /\ \A i \in Ids : Due_(i) = BadDue => (Stamp(i) = 0 /\ lastSent[i] = -1)
    /\ ev.type = "od_skip_parse" =>
           /\ odLoop = "run" /\ odPc = "rows"
           /\ odIdx = Len(odRows) - ev.rem + 1

\* a row with an unparseable due date was skipped and the pass has delivered the
\* alert of a later row
C16_Witness ==
    /\ ev.type = "od_sent"
    /\ \E k \in 1..(odIdx - 1) : odRows[k].due_date = BadDue

\* a step of a reminder pass (or the start of a loop): the loop's control state moves
OdStep == odLoop' # odLoop \/ odIdx' # odIdx \/ odPc' # odPc
HrStep == hrLoop' # hrLoop \/ hrIdx' # hrIdx

\* C17: a step of a reminder pass creates and deletes no row and changes no
\* user_id, due_date or completed; the only column it writes is
\* last_overdue_notified, of the task whose alert the pass has just delivered; a
\* step of hourly_reminder leaves the table as it is.
C17_PassFrame ==
    [][/\ (OdStep \/ HrStep) =>
            /\ Len(tasks') = Len(tasks)
            /\ \A i \in Ids :
                  /\ tasks'[i].user_id = tasks[i].user_id
                  /\ tasks'[i].due_date = tasks[i].due_date
                  /\ tasks'[i].completed = tasks[i].completed
                  /\ tasks'[i].last_overdue_notified # Stamp(i) =>
                         /\ odPc = "stamp" /\ OdRow.id = i
                         /\ lastSent[i] = odNow
            /\ dbInit' = dbInit
       /\ HrStep => tasks' = tasks]_vars

\* the pass has stamped the task it notified while another task of the table
\* keeps the stamp it was created with
C17_Witness ==
    /\ ev.type = "od_stamp"
    /\ Stamp(ev.task) = ev.now
    /\ \E j \in Ids : j # ev.task /\ Stamp(j) = 0 /\ Due_(j) >= 0

\* C18: a /complete by a user who is not the task's user_id, or for an id that is
\* not in the table, leaves the table unchanged; completed goes to 1 only in a
\* /complete step issued by the task's user_id for that id, and that step changes
\* nothing else.
C18_OnlyAssigneeCompletes ==
    [][/\ (ev'.type \in {"complete", "complete_denied"} /\
            ~(ev'.task \in Ids /\ tasks[ev'.task].user_id = ev'.user)) => tasks' = tasks
       /\ \A i \in Ids :
             tasks'[i].completed # tasks[i].completed =>
                 /\ ev'.type \in {"complete", "complete_denied"}
                 /\ ev'.task = i /\ ev'.user = tasks[i].user_id
                 /\ tasks' = [tasks EXCEPT ![i].completed = 1]]_vars

\* a user has asked to complete a pending task of another user
C18_Witness ==
    /\ ev.type = "complete_denied"
    /\ ev.task \in Ids
    /\ tasks[ev.task].user_id # ev.user
    /\ tasks[ev.task].completed = 0

\* on_ready has started the loop: its handler leaves, and the loop's state or
\* next iteration time is set
OdLoopStarted == readyPend' < readyPend /\ (odLoop' # odLoop \/ odNext' # odNext)
HrLoopStarted == readyPend' < readyPend /\ (hrLoop' # hrLoop \/ hrNext' # hrNext)

\* C19: whatever the number and the interleaving of on_ready handlers, a loop is
\* started only while no instance of it is alive (never started, or ended by an
\* exception) and only after init_db has completed; when a handler leaves, both
\* loops are alive.
C19_SingleLoopInstance ==
    [][/\ OdLoopStarted => (odLoop \in {"off", "failed"} /\ dbInit)
       /\ HrLoopStarted => (hrLoop \in {"off", "failed"} /\ dbInit)
       /\ readyPend' < readyPend =>
              (odLoop' \in {"idle", "run"} /\ hrLoop' \in {"idle", "run"})
       /\ (odLoop = "off" /\ odLoop' # "off") => dbInit
       /\ (hrLoop = "off" /\ hrLoop' # "off") => dbInit]_vars

\* two handlers are past init_db at once while both loops are alive, the overdue
\* loop in the middle of a pass
C19_Witness ==
    /\ readyPend > 1
    /\ odLoop = "run" /\ odIdx <= Len(odRows)
    /\ hrLoop = "idle"

====
